---- MODULE Spec2Model ----
(***************************************************************************)
(* Model of the u-blox AT helpers (plugins/ublox/mm-modem-helpers-ublox.c) *)
(* The helpers are pure functions of their arguments; every action below   *)
(* is one call of one helper, with its arguments drawn from bounded sets   *)
(* and its return value, out-parameters and GError recorded in the state.  *)
(***************************************************************************)
EXTENDS Integers, Sequences, FiniteSets, TLC

VARIABLES
    op,            \* name of the helper called last ("none" before any call)
    input,         \* the arguments of that call
    ret,           \* what the call returned: value, out-parameters, *error
    combinations,  \* the GArray of MMModemModeCombination the caller holds
    origin,        \* where that array comes from: "none", "parsed", "filtered"
    port,          \* the modem's MBIM port: "missing", "closed" or "open"
    pc,            \* where the MBIM modem's initialization_started stands
    result,        \* ctx->result, the operation's GSimpleAsyncResult
    parent_res,    \* what the parent's initialization_started_finish gave
    finish_ret,    \* what the MBIM initialization_started_finish returned
    hist,          \* what the running operation did so far
    runs           \* initialization_started calls made

helper_vars == <<op, input, ret, combinations, origin>>
mbim_vars == <<port, pc, result, parent_res, finish_ret, hist, runs>>
vars == <<op, input, ret, combinations, origin,
          port, pc, result, parent_res, finish_ret, hist, runs>>

(***************************************************************************)
(* Bounds of the model                                                     *)
(***************************************************************************)
\* longest list of selected AcT values in a +URAT=? response
MaxSelected == 2
\* longest list of preferred AcT values in a +URAT=? response
MaxPreferred == 2

(***************************************************************************)
(* MMModemMode: a bitmask, modelled as the set of its bits                 *)
(***************************************************************************)
MM_MODEM_MODE_NONE == {}
MM_MODEM_MODE_2G == {"2G"}
MM_MODEM_MODE_3G == {"3G"}
MM_MODEM_MODE_4G == {"4G"}
MM_MODEM_MODE_ANY == {"CS", "2G", "3G", "4G", "REST"}

mm_count_bits_set(mask) == Cardinality(mask)

\* Index of the array is the ublox-specific value (0-based in C, 1-based here)
ublox_combinations ==
    << MM_MODEM_MODE_2G,
       MM_MODEM_MODE_2G \cup MM_MODEM_MODE_3G,
       MM_MODEM_MODE_3G,
       MM_MODEM_MODE_4G,
       MM_MODEM_MODE_2G \cup MM_MODEM_MODE_3G \cup MM_MODEM_MODE_4G,
       MM_MODEM_MODE_2G \cup MM_MODEM_MODE_4G,
       MM_MODEM_MODE_3G \cup MM_MODEM_MODE_4G >>

\* G_N_ELEMENTS (ublox_combinations)
N_COMBINATIONS == Len(ublox_combinations)

\* ublox_combinations[value] for a C index value < G_N_ELEMENTS
Combination(value) == ublox_combinations[value + 1]

(***************************************************************************)
(* GError and GArray values                                                *)
(***************************************************************************)
NoError == [code |-> "NULL", message |-> ""]
GErr(code, message) == [code |-> code, message |-> message]

NULL_ARRAY == [null |-> TRUE, items |-> << >>]
GArrayOf(items) == [null |-> FALSE, items |-> items]

MMModemModeCombination(allowed, preferred) ==
    [allowed |-> allowed, preferred |-> preferred]

(***************************************************************************)
(* Helpers of the daemon's mm-modem-helpers.c, called by this file         *)
(***************************************************************************)
\* A "(...)" group of a test response, as mm_split_string_groups returns it:
\* the uint values it lists, or a text that is no list of uints.
Group(ok, vals) == [ok |-> ok, vals |-> vals]

\* mm_parse_uint_list: the values of the group as a GArray of guint, NULL for
\* a missing or empty group, a GError for a group that is no list of uints.
mm_parse_uint_list(split, index) ==
    IF index > Len(split) THEN [array |-> NULL_ARRAY, error |-> NoError]
    ELSE IF ~split[index].ok
         THEN [array |-> NULL_ARRAY,
               error |-> GErr("MM_CORE_ERROR_FAILED", "Couldn't parse uint list")]
    ELSE IF split[index].vals = << >>
         THEN [array |-> NULL_ARRAY, error |-> NoError]
    ELSE [array |-> GArrayOf(split[index].vals), error |-> NoError]

(***************************************************************************)
(* URAT=? response parser                                                  *)
(***************************************************************************)
\* The checks of the inner loop with the last one, !(allowed & preferred),
\* left out
PreferredSkipped_NoSubsetCheck(allowed, preferred_value) ==
    \/ preferred_value >= N_COMBINATIONS
    \/ mm_count_bits_set(Combination(preferred_value)) # 1

\* The checks of the inner loop with the single-AcT one left out
PreferredSkipped_NoSingleCheck(allowed, preferred_value) ==
    \/ preferred_value >= N_COMBINATIONS
    \/ allowed \cap Combination(preferred_value) = {}

\* Whether the inner loop skips ('continue') a preferred value: it is out of
\* the table, is not a single AcT, or is no part of the allowed mask
PreferredSkipped(allowed, preferred_value) ==
    \/ preferred_value >= N_COMBINATIONS
    \/ mm_count_bits_set(Combination(preferred_value)) # 1
    \/ allowed \cap Combination(preferred_value) = {}

RECURSIVE PreferredLoop(_, _, _, _)
\* for (j = 0; j < preferred->len; j++) of mm_ublox_parse_urat_test_response
PreferredLoop(allowed, preferred, j, combos) ==
    IF j > Len(preferred) THEN combos
    ELSE IF PreferredSkipped(allowed, preferred[j])
         THEN PreferredLoop(allowed, preferred, j + 1, combos)
         ELSE PreferredLoop(allowed, preferred, j + 1,
                  Append(combos, MMModemModeCombination(allowed, Combination(preferred[j]))))

RECURSIVE SelectedLoop(_, _, _, _)
\* for (i = 0; i < selected->len; i++) of mm_ublox_parse_urat_test_response
SelectedLoop(selected, preferred, i, combos) ==
    IF i > Len(selected) THEN combos
    ELSE LET selected_value == selected[i] IN
         IF selected_value >= N_COMBINATIONS
         THEN SelectedLoop(selected, preferred, i + 1, combos)
         ELSE LET allowed == Combination(selected_value)
                  first   == Append(combos, MMModemModeCombination(allowed, MM_MODEM_MODE_NONE))
              IN IF mm_count_bits_set(allowed) = 1
                 THEN SelectedLoop(selected, preferred, i + 1, first)
                 ELSE IF preferred.null
                 THEN SelectedLoop(selected, preferred, i + 1, first)
                 ELSE SelectedLoop(selected, preferred, i + 1,
                          PreferredLoop(allowed, preferred.items, 1, first))

\* mm_ublox_parse_urat_test_response, given the groups of the response
mm_ublox_parse_urat_test_response(split) ==
    LET split_len == Len(split)
        selected  == mm_parse_uint_list(split, 1)
        preferred == mm_parse_uint_list(split, 2)
        Fail(e)   == [value |-> NULL_ARRAY, error |-> e]
    IN IF split_len > 2 \/ split_len < 1
       THEN Fail(GErr("MM_CORE_ERROR_FAILED", "Unexpected number of groups in +URAT=? response"))
       ELSE IF selected.error # NoError THEN Fail(selected.error)
       ELSE IF selected.array.null
       THEN Fail(GErr("MM_CORE_ERROR_FAILED", "No selected RAT values given in +URAT=? response"))
       ELSE IF preferred.error # NoError THEN Fail(preferred.error)
       ELSE LET combos == SelectedLoop(selected.array.items, preferred.array, 1, << >>)
            IN IF Len(combos) = 0
               THEN Fail(GErr("MM_CORE_ERROR_FAILED", "No combinations built from +URAT=? response"))
               ELSE [value |-> GArrayOf(combos), error |-> NoError]

(***************************************************************************)
(* Per-model filtering of the supported modes                              *)
(***************************************************************************)
\* A const gchar *model: NULL, or the characters of the string
NULL_MODEL == [null |-> TRUE, str |-> << >>]
Str(chars) == [null |-> FALSE, str |-> chars]

g_str_equal(a, b) == a = b
g_str_has_prefix(str, prefix) ==
    /\ Len(str) >= Len(prefix)
    /\ SubSeq(str, 1, Len(prefix)) = prefix

TOBY_L201     == <<"T","O","B","Y","-","L","2","0","1">>
TOBY_L220     == <<"T","O","B","Y","-","L","2","2","0">>
MPCI_L201     == <<"M","P","C","I","-","L","2","0","1">>
LISA_U        == <<"L","I","S","A","-","U">>
SARA_U        == <<"S","A","R","A","-","U">>
SARA_U270_53S == <<"S","A","R","A","-","U","2","7","0","-","5","3","S">>
SARA_U280     == <<"S","A","R","A","-","U","2","8","0">>

ALL_MODES == MM_MODEM_MODE_2G \cup MM_MODEM_MODE_3G \cup MM_MODEM_MODE_4G

\* supported_modes_per_model with the LISA-U/SARA-U branch matching the
\* whole string instead of its prefix
supported_modes_per_model_NoPrefix(model) ==
    IF model.null THEN ALL_MODES
    ELSE IF \/ g_str_equal(model.str, TOBY_L201)
            \/ g_str_equal(model.str, TOBY_L220)
            \/ g_str_equal(model.str, MPCI_L201)
         THEN ALL_MODES \ MM_MODEM_MODE_2G
    ELSE IF g_str_equal(model.str, LISA_U) \/ g_str_equal(model.str, SARA_U)
         THEN ALL_MODES \ MM_MODEM_MODE_4G
    ELSE ALL_MODES

supported_modes_per_model(model) ==
    IF model.null THEN ALL_MODES
    ELSE IF \/ g_str_equal(model.str, TOBY_L201)
            \/ g_str_equal(model.str, TOBY_L220)
            \/ g_str_equal(model.str, MPCI_L201)
         THEN ALL_MODES \ MM_MODEM_MODE_2G
    ELSE IF g_str_has_prefix(model.str, LISA_U) \/ g_str_has_prefix(model.str, SARA_U)
         THEN IF g_str_equal(model.str, SARA_U270_53S) \/ g_str_equal(model.str, SARA_U280)
              THEN (ALL_MODES \ MM_MODEM_MODE_4G) \ MM_MODEM_MODE_2G
              ELSE ALL_MODES \ MM_MODEM_MODE_4G
    ELSE ALL_MODES

\* mm_filter_supported_modes of mm-modem-helpers.c: the combinations whose
\* allowed modes are all among the allowed modes of the single item of 'all'
mm_filter_supported_modes(all, supported_combinations) ==
    SelectSeq(supported_combinations, LAMBDA c : c.allowed \ all[1].allowed = {})

\* mm_ublox_filter_supported_modes without its "Nothing filtered?" return
FilterSupportedModes_AlwaysFilters(model, combos) ==
    IF model.null
    THEN [value |-> GArrayOf(combos), error |-> NoError, same |-> TRUE, unref |-> FALSE]
    ELSE LET mode == MMModemModeCombination(supported_modes_per_model(model), MM_MODEM_MODE_NONE)
             filtered == mm_filter_supported_modes(<<mode>>, combos)
         IN IF Len(filtered) = 0
            THEN [value |-> NULL_ARRAY,
                  error |-> GErr("MM_CORE_ERROR_FAILED",
                                 "No valid mode combinations built after filtering"),
                  same |-> FALSE, unref |-> TRUE]
            ELSE [value |-> GArrayOf(filtered), error |-> NoError,
                  same |-> FALSE, unref |-> TRUE]

\* mm_ublox_filter_supported_modes. same: the returned pointer is the input
\* array; unref: the input array lost the reference passed in.
mm_ublox_filter_supported_modes(model, combos) ==
    IF model.null
    THEN [value |-> GArrayOf(combos), error |-> NoError, same |-> TRUE, unref |-> FALSE]
    ELSE LET mode == MMModemModeCombination(supported_modes_per_model(model), MM_MODEM_MODE_NONE)
         IN IF mode.allowed = supported_modes_per_model(NULL_MODEL)
            THEN [value |-> GArrayOf(combos), error |-> NoError, same |-> TRUE, unref |-> FALSE]
            ELSE LET filtered == mm_filter_supported_modes(<<mode>>, combos)
                 IN IF Len(filtered) = 0
                    THEN [value |-> NULL_ARRAY,
                          error |-> GErr("MM_CORE_ERROR_FAILED",
                                         "No valid mode combinations built after filtering"),
                          same |-> FALSE, unref |-> TRUE]
                    ELSE [value |-> GArrayOf(filtered), error |-> NoError,
                          same |-> FALSE, unref |-> TRUE]

(***************************************************************************)
(* Get mode to apply when ANY                                              *)
(***************************************************************************)
RECURSIVE AnyLoop(_, _, _, _)
\* for (i = 0; i < combinations->len; i++) of mm_ublox_get_modem_mode_any
AnyLoop(combos, i, any, any_bits_set) ==
    IF i > Len(combos) THEN any
    ELSE IF combos[i].preferred = MM_MODEM_MODE_NONE
         THEN AnyLoop(combos, i + 1, any, any_bits_set)
    ELSE LET bits_set == mm_count_bits_set(combos[i].allowed)
         IN IF bits_set > any_bits_set
            THEN AnyLoop(combos, i + 1, combos[i].allowed, bits_set)
            ELSE AnyLoop(combos, i + 1, any, any_bits_set)

\* mm_ublox_get_modem_mode_any. asserted: g_assert (any != MM_MODEM_MODE_NONE)
\* held; when it does not, the process aborts and nothing is returned.
mm_ublox_get_modem_mode_any(combos) ==
    LET any == AnyLoop(combos, 1, MM_MODEM_MODE_NONE, 0)
    IN [value |-> any, asserted |-> any # MM_MODEM_MODE_NONE]

(***************************************************************************)
(* AT responses and the regular expressions matched on them                *)
(*                                                                         *)
(* A response is a sequence of tokens: a literal text (a "+TAG: " prefix,  *)
(* a comma, "\r\n", any other text) or a run of digits, which has a value  *)
(* and either fits a guint or does not.                                    *)
(***************************************************************************)
Lit(s) == [k |-> "lit", s |-> s, v |-> 0, fits |-> TRUE]
Num(v) == [k |-> "num", s |-> "", v |-> v, fits |-> TRUE]
\* a run of digits whose value exceeds G_MAXUINT
BigNum == [k |-> "num", s |-> "", v |-> 0, fits |-> FALSE]
Digits == [k |-> "num", s |-> "", v |-> 0, fits |-> TRUE]
Comma == Lit(",")

\* Whether the pattern (literals, and Digits for \d+) matches at token i
MatchesAt(response, i, pattern) ==
    /\ i + Len(pattern) - 1 <= Len(response)
    /\ \A j \in 1 .. Len(pattern) :
          /\ response[i + j - 1].k = pattern[j].k
          /\ pattern[j].k = "lit" => response[i + j - 1].s = pattern[j].s

\* g_regex_match_full + g_match_info_matches for a regex made of a mandatory
\* pattern and an optional one following it (the trailing (?:\r\n)? matches
\* or not and captures nothing): the leftmost match, its position 0 for none
RegexMatch(response, mandatory, optional) ==
    LET starts == { i \in 1 .. Len(response) : MatchesAt(response, i, mandatory) }
    IN IF starts = {} THEN [matches |-> FALSE, tokens |-> << >>]
       ELSE LET i == CHOOSE x \in starts : \A y \in starts : x <= y
                n == IF optional # << >> /\ MatchesAt(response, i + Len(mandatory), optional)
                     THEN Len(mandatory) + Len(optional)
                     ELSE Len(mandatory)
            IN [matches |-> TRUE, tokens |-> SubSeq(response, i, i + n - 1)]

\* The n-th (\d+) group of a match: the n-th run of digits matched, if any
MatchGroup(match_info, n) ==
    LET nums == SelectSeq(match_info.tokens, LAMBDA t : t.k = "num")
    IN IF n <= Len(nums) THEN <<nums[n]>> ELSE << >>

\* mm_get_uint_from_match_info: FALSE for a group that did not take part in
\* the match or whose digits are no guint
mm_get_uint_from_match_info(match_info, n) ==
    LET g == MatchGroup(match_info, n)
    IN IF g = << >> \/ ~g[1].fits
       THEN [ok |-> FALSE, value |-> 0]
       ELSE [ok |-> TRUE, value |-> g[1].v]

(***************************************************************************)
(* +UPINCNT response parser                                                *)
(***************************************************************************)
\* "\\+UPINCNT: (\\d+),(\\d+),(\\d+),(\\d+)(?:\\r\\n)?"
UPINCNT_REGEX ==
    <<Lit("+UPINCNT: "), Digits, Comma, Digits, Comma, Digits, Comma, Digits>>

mm_ublox_parse_upincnt_response(response) ==
    LET match_info == RegexMatch(response, UPINCNT_REGEX, << >>)
        pin   == mm_get_uint_from_match_info(match_info, 1)
        pin2  == mm_get_uint_from_match_info(match_info, 2)
        puk   == mm_get_uint_from_match_info(match_info, 3)
        puk2  == mm_get_uint_from_match_info(match_info, 4)
        \* gboolean success = TRUE;
        success_initial == TRUE
        inner_error ==
            IF ~match_info.matches THEN NoError
            ELSE IF ~pin.ok  THEN GErr("MM_CORE_ERROR_UNSUPPORTED", "Couldn't parse PIN attempts")
            ELSE IF ~pin2.ok THEN GErr("MM_CORE_ERROR_UNSUPPORTED", "Couldn't parse PIN2 attempts")
            ELSE IF ~puk.ok  THEN GErr("MM_CORE_ERROR_UNSUPPORTED", "Couldn't parse PUK attempts")
            ELSE IF ~puk2.ok THEN GErr("MM_CORE_ERROR_UNSUPPORTED", "Couldn't parse PUK2 attempts")
            ELSE NoError
        success == IF match_info.matches /\ inner_error = NoError THEN TRUE ELSE success_initial
        \* the locals keep the values read before a 'goto out', 0 otherwise
        Local(r) == IF match_info.matches /\ r.ok THEN r.value ELSE 0
    IN IF inner_error # NoError
       THEN [value |-> FALSE, error |-> inner_error, out |-> << >>]
       ELSE IF ~success
       THEN [value |-> FALSE,
             error |-> GErr("MM_CORE_ERROR_FAILED", "Couldn't parse +UPINCNT response"),
             out |-> << >>]
       ELSE [value |-> TRUE, error |-> NoError,
             out |-> <<Local(pin), Local(pin2), Local(puk), Local(puk2)>>]

(***************************************************************************)
(* CFUN? response parser                                                   *)
(***************************************************************************)
\* "\\+CFUN: (\\d+)(?:,(?:\\d+))?(?:\\r\\n)?"
CFUN_REGEX == <<Lit("+CFUN: "), Digits>>

\* mm_ublox_parse_cfun_response. error: the caller's GError on return;
\* inner_error: the local GError on return, when it was not handed over.
mm_ublox_parse_cfun_response(response) ==
    LET match_info == RegexMatch(response, CFUN_REGEX, <<Comma, Digits>>)
        value == mm_get_uint_from_match_info(match_info, 1)
        inner_error ==
            IF match_info.matches /\ ~value.ok
            THEN GErr("MM_CORE_ERROR_FAILED", "Couldn't read power state value")
            ELSE NoError
        state ==
            IF ~match_info.matches \/ ~value.ok THEN "MM_MODEM_POWER_STATE_UNKNOWN"
            ELSE IF value.value = 1 THEN "MM_MODEM_POWER_STATE_ON"
            ELSE IF value.value \in {0, 4, 19} THEN "MM_MODEM_POWER_STATE_LOW"
            ELSE "MM_MODEM_POWER_STATE_UNKNOWN"
    IN IF inner_error # NoError
       THEN [value |-> FALSE, error |-> inner_error, inner_error |-> NoError, out |-> << >>]
       ELSE IF state = "MM_MODEM_POWER_STATE_UNKNOWN"
       THEN [value |-> FALSE, error |-> NoError,
             inner_error |-> GErr("MM_CORE_ERROR_FAILED", "Couldn't parse +CFUN response"),
             out |-> << >>]
       ELSE [value |-> TRUE, error |-> NoError, inner_error |-> NoError, out |-> <<state>>]


(***************************************************************************)
(* URAT? response parser                                                   *)
(***************************************************************************)
\* "\\+URAT: (\\d+)(?:,(\\d+))?(?:\\r\\n)?"
URAT_REGEX == <<Lit("+URAT: "), Digits>>

\* The preferred-value checks with the last one, !(allowed & preferred), left out
PreferredError_NoSubsetCheck(allowed, value) ==
    IF value >= N_COMBINATIONS
    THEN GErr("MM_CORE_ERROR_FAILED", "Unexpected AcT preferred value")
    ELSE IF mm_count_bits_set(Combination(value)) # 1
    THEN GErr("MM_CORE_ERROR_FAILED", "AcT preferred value should be a single AcT")
    ELSE NoError

\* The error, if any, the preferred value read from the response raises
PreferredError(allowed, value) ==
    IF value >= N_COMBINATIONS
    THEN GErr("MM_CORE_ERROR_FAILED", "Unexpected AcT preferred value")
    ELSE IF mm_count_bits_set(Combination(value)) # 1
    THEN GErr("MM_CORE_ERROR_FAILED", "AcT preferred value should be a single AcT")
    ELSE IF allowed \cap Combination(value) = {}
    THEN GErr("MM_CORE_ERROR_FAILED", "AcT preferred value not a subset of the allowed value")
    ELSE NoError

\* mm_ublox_parse_urat_read_response reading the preferred value into
\* 'allowed' too (a single 'value' variable serves both reads)
UratRead_PreferredOverwritesAllowed(response) ==
    LET match_info == RegexMatch(response, URAT_REGEX, <<Comma, Digits>>)
        sel  == mm_get_uint_from_match_info(match_info, 1)
        pref == mm_get_uint_from_match_info(match_info, 2)
    IN IF match_info.matches /\ sel.ok /\ sel.value < N_COMBINATIONS
          /\ pref.ok /\ PreferredError(Combination(sel.value), pref.value) = NoError
       THEN [value |-> TRUE, error |-> NoError, inner_error |-> NoError,
             out |-> <<Combination(pref.value), Combination(pref.value)>>]
       ELSE IF match_info.matches /\ sel.ok /\ sel.value < N_COMBINATIONS /\ ~pref.ok
       THEN [value |-> TRUE, error |-> NoError, inner_error |-> NoError,
             out |-> <<Combination(sel.value), MM_MODEM_MODE_NONE>>]
       ELSE [value |-> FALSE, error |-> GErr("MM_CORE_ERROR_FAILED", ""),
             inner_error |-> NoError, out |-> << >>]

\* mm_ublox_parse_urat_read_response. out: <<*out_allowed, *out_preferred>>;
\* error: the caller's GError on return; inner_error: the local GError on
\* return, when it was not handed over.
mm_ublox_parse_urat_read_response(response) ==
    LET match_info == RegexMatch(response, URAT_REGEX, <<Comma, Digits>>)
        sel  == mm_get_uint_from_match_info(match_info, 1)
        pref == mm_get_uint_from_match_info(match_info, 2)
        Fail(e) == [value |-> FALSE, error |-> e, inner_error |-> NoError, out |-> << >>]
    IN IF ~match_info.matches
       THEN \* allowed is still MM_MODEM_MODE_NONE
            [value |-> FALSE, error |-> NoError,
             inner_error |-> GErr("MM_CORE_ERROR_FAILED", "Couldn't parse +URAT response"),
             out |-> << >>]
       ELSE IF ~sel.ok
       THEN Fail(GErr("MM_CORE_ERROR_FAILED", "Couldn't read AcT selected value"))
       ELSE IF sel.value >= N_COMBINATIONS
       THEN Fail(GErr("MM_CORE_ERROR_FAILED", "Unexpected AcT selected value"))
       ELSE LET allowed == Combination(sel.value) IN
            IF ~pref.ok
            THEN [value |-> TRUE, error |-> NoError, inner_error |-> NoError,
                  out |-> <<allowed, MM_MODEM_MODE_NONE>>]
            ELSE IF PreferredError(allowed, pref.value) # NoError
            THEN Fail(PreferredError(allowed, pref.value))
            ELSE [value |-> TRUE, error |-> NoError, inner_error |-> NoError,
                  out |-> <<allowed, Combination(pref.value)>>]

(***************************************************************************)
(* URAT=X command builder                                                  *)
(***************************************************************************)
NULL_STRING == [null |-> TRUE, str |-> ""]
GString(str) == [null |-> FALSE, str |-> str]

RECURSIVE AppendLoop(_, _)
\* for (i = 0; i < G_N_ELEMENTS (ublox_combinations); i++) of append_rat_value:
\* the first index whose entry is the mode, G_N_ELEMENTS if there is none
AppendLoop(i, mode) ==
    IF i >= N_COMBINATIONS THEN i
    ELSE IF Combination(i) = mode THEN i
    ELSE AppendLoop(i + 1, mode)

\* append_rat_value printing the 1-based position
append_rat_value_OneBased(str, mode) ==
    LET i == AppendLoop(0, mode)
    IN IF i < N_COMBINATIONS
       THEN [ok |-> TRUE, str |-> str \o ToString(i + 1), error |-> NoError]
       ELSE [ok |-> FALSE, str |-> str,
             error |-> GErr("MM_CORE_ERROR_FAILED", "No AcT value matches requested mode")]

append_rat_value(str, mode) ==
    LET i == AppendLoop(0, mode)
    IN IF i < N_COMBINATIONS
       THEN [ok |-> TRUE, str |-> str \o ToString(i), error |-> NoError]
       ELSE [ok |-> FALSE, str |-> str,
             error |-> GErr("MM_CORE_ERROR_FAILED", "No AcT value matches requested mode")]

mm_ublox_build_urat_set_command(allowed, preferred) ==
    LET first == append_rat_value("+URAT=", allowed)
    IN IF ~first.ok THEN [value |-> NULL_STRING, error |-> first.error]
       ELSE IF preferred # MM_MODEM_MODE_NONE
       THEN LET second == append_rat_value(first.str \o ",", preferred)
            IN IF ~second.ok THEN [value |-> NULL_STRING, error |-> second.error]
               ELSE [value |-> GString(second.str), error |-> NoError]
       ELSE [value |-> GString(first.str), error |-> NoError]

(***************************************************************************)
(* Arguments the calls are made with                                       *)
(***************************************************************************)
\* AcT values a response may list: those of the table and one past it
ActValues == 0 .. N_COMBINATIONS

SeqsUpTo(S, n) == UNION { [1 .. k -> S] : k \in 0 .. n }

\* Values the preferred group lists: the single modes (0, 2, 3), masks of
\* several modes (1, 6), and one past the table
PreferredValues == (0 .. 3) \cup {N_COMBINATIONS - 1, N_COMBINATIONS}

Groups(values, n) == { Group(TRUE, v) : v \in SeqsUpTo(values, n) } \cup { Group(FALSE, << >>) }

\* The groups of a +URAT=? response: none, one, two, or more than two
Splits ==
    { << >> }
    \cup { <<s>> : s \in Groups(ActValues, MaxSelected) }
    \cup { <<s, p>> : s \in Groups(ActValues, MaxSelected),
                      p \in Groups(PreferredValues, MaxPreferred) }
    \cup { <<Group(TRUE, <<0>>), Group(TRUE, <<0>>), g>> : g \in Groups(ActValues, 0) }

\* longest list of numbers after the tag of a +UPINCNT response
MaxPinFields == 4
\* longest list of numbers after the tag of a +CFUN or +URAT response
MaxFields == 2

\* An AT response: an optional line of other text, a tag, numbers separated
\* by commas, an optional end of line
RECURSIVE CommaSeparated(_)
CommaSeparated(fields) ==
    IF Len(fields) <= 1 THEN fields
    ELSE <<Head(fields), Comma>> \o CommaSeparated(Tail(fields))

Response(pre, tag, fields, crlf) ==
    (IF pre THEN <<Lit("AT"), Lit("\r\n")>> ELSE << >>)
    \o <<Lit(tag)>> \o CommaSeparated(fields)
    \o (IF crlf THEN <<Lit("\r\n")>> ELSE << >>)

ResponseArgs(tags, numbers, n) ==
    [pre : BOOLEAN, tag : tags, fields : SeqsUpTo(numbers, n), crlf : BOOLEAN]

ResponseOf(a) == Response(a.pre, a.tag, a.fields, a.crlf)

UpincntArgs ==
    ResponseArgs({"+UPINCNT: ", "+UPINCNT:", "+CPINR: "}, {Num(3), Num(10), BigNum}, MaxPinFields)
CfunArgs ==
    ResponseArgs({"+CFUN: ", "+CFUN:", "+URAT: "},
                 {Num(0), Num(1), Num(2), Num(4), Num(19), BigNum}, MaxFields)
UratArgs ==
    ResponseArgs({"+URAT: ", "+URAT:", "+CFUN: "},
                 { Num(v) : v \in ActValues } \cup {BigNum}, MaxFields)

\* MMModemMode values a command is asked for
Modes == SUBSET {"CS", "2G", "3G", "4G"} \cup {MM_MODEM_MODE_ANY}

Models ==
    { NULL_MODEL, Str(TOBY_L201), Str(TOBY_L220), Str(MPCI_L201),
      Str(<<"T","O","B","Y","-","L","2","1","0">>),
      Str(LISA_U \o <<"2","0","0">>), Str(SARA_U \o <<"2","7","0">>),
      Str(SARA_U270_53S), Str(SARA_U280),
      Str(<<"S","A","R","A","-","G","3","5","0">>) }

(***************************************************************************)
(* MBIM modem: first initialization step (mm-broadband-modem-mbim.c)       *)
(***************************************************************************)
\* initialization_started calls made on one modem
MaxRuns == 3

NULL_POINTER == "NULL"

\* g_simple_async_result_new: no error, no result pointer yet
NewResult == [error |-> NoError, op_res |-> NULL_POINTER]

\* Nothing done yet by the operation
NoHist ==
    [open_at_call |-> FALSE, opens |-> 0, open_ok |-> FALSE,
     launched |-> FALSE, port_at_launch |-> "none"]

NoParentResult == [ptr |-> NULL_POINTER, error |-> NoError]
NoFinish == [value |-> NULL_POINTER, error |-> NoError]

\* What the parent class's initialization_started_finish may give: its
\* context pointer or NULL, with or without an error
ParentOutcomes ==
    { [ptr |-> p, error |-> e] :
        p \in {NULL_POINTER, "parent_ctx"},
        e \in {NoError, GErr("MM_CORE_ERROR_FAILED", "Couldn't start parent initialization")} }

\* mm_mbim_port_open + mm_mbim_port_open_finish of mm-mbim-port.c: the port
\* is open once the open succeeded, and stays as it was otherwise
mm_mbim_port_open_finish(p, ok) == IF ok THEN "open" ELSE p

\* initialization_started without its mm_mbim_port_is_open test: the parent
\* is launched for any port that is there
InitializationStartedStep_NoIsOpenCheck(p) ==
    IF p = "missing" THEN "fail" ELSE "parent"

\* The branch initialization_started takes: "fail" for a missing port,
\* "parent" for an open one, "open" (mm_mbim_port_open) otherwise
InitializationStartedStep(p) ==
    IF p = "missing" THEN "fail"
    ELSE IF p = "open" THEN "parent"
    ELSE "open"

\* mbim_port_open_ready going on to the parent whatever the open gave
MbimPortOpenReadyStep_IgnoresFailure(ok) == "parent"

\* The branch mbim_port_open_ready takes on mm_mbim_port_open_finish's value
MbimPortOpenReadyStep(ok) == IF ~ok THEN "fail" ELSE "parent"

\* parent_initialization_started_ready taking the parent's error as its own
ParentReady_ErrorIsFatal(res, parent) ==
    IF parent.error # NoError
    THEN [res EXCEPT !.error = parent.error]
    ELSE [res EXCEPT !.op_res = parent.ptr]

\* parent_initialization_started_ready: the parent's error is logged and
\* freed, the parent's pointer is set as the operation's result
parent_initialization_started_ready(res, parent) ==
    [res EXCEPT !.op_res = parent.ptr]

\* initialization_started_finish
initialization_started_finish(res) ==
    IF res.error # NoError
    THEN [value |-> NULL_POINTER, error |-> res.error]
    ELSE [value |-> res.op_res, error |-> NoError]

(***************************************************************************)
(* The calls                                                               *)
(***************************************************************************)
Init ==
    /\ op = "none"
    /\ input = [split |-> << >>]
    /\ ret = [value |-> NULL_ARRAY, error |-> NoError]
    /\ combinations = NULL_ARRAY
    /\ origin = "none"
    /\ port = "closed"
    /\ pc = "idle"
    /\ result = NewResult
    /\ parent_res = NoParentResult
    /\ finish_ret = NoFinish
    /\ hist = NoHist
    /\ runs = 0

\* combinations = mm_ublox_parse_urat_test_response (response, &error): the
\* first call made, on the response to AT+URAT=?
ParseUratTest ==
    /\ op = "none"
    /\ \E split \in Splits :
        /\ op' = "mm_ublox_parse_urat_test_response"
        /\ input' = [split |-> split]
        /\ ret' = mm_ublox_parse_urat_test_response(split)
        /\ combinations' = ret'.value
        /\ origin' = IF ret'.value.null THEN "none" ELSE "parsed"
    /\ UNCHANGED mbim_vars

\* combinations = mm_ublox_filter_supported_modes (model, combinations, &error)
FilterSupportedModes ==
    /\ ~combinations.null
    /\ \E model \in Models :
        /\ op' = "mm_ublox_filter_supported_modes"
        /\ input' = [model |-> model, combinations |-> combinations]
        /\ ret' = mm_ublox_filter_supported_modes(model, combinations.items)
        /\ combinations' = ret'.value
        /\ origin' = IF ret'.value.null THEN "none"
                     ELSE IF ret'.same THEN origin ELSE "filtered"
    /\ UNCHANGED mbim_vars

\* mm_ublox_get_modem_mode_any (combinations)
GetModemModeAny ==
    /\ ~combinations.null
    /\ op' = "mm_ublox_get_modem_mode_any"
    /\ input' = [combinations |-> combinations, origin |-> origin]
    /\ ret' = mm_ublox_get_modem_mode_any(combinations.items)
    /\ UNCHANGED <<combinations, origin>>
    /\ UNCHANGED mbim_vars

Next ==
    \/ ParseUratTest
    \/ FilterSupportedModes
    \/ GetModemModeAny

Spec == Init /\ [][Next]_vars

(***************************************************************************)
(* The calls of the response parsers and of the command builder, each made *)
(* on its own                                                              *)
(***************************************************************************)
ParseUpincnt ==
    /\ op = "none"
    /\ \E a \in UpincntArgs :
        /\ op' = "mm_ublox_parse_upincnt_response"
        /\ input' = a
        /\ ret' = mm_ublox_parse_upincnt_response(ResponseOf(a))
    /\ UNCHANGED <<combinations, origin>>
    /\ UNCHANGED mbim_vars

ParseCfun ==
    /\ op = "none"
    /\ \E a \in CfunArgs :
        /\ op' = "mm_ublox_parse_cfun_response"
        /\ input' = a
        /\ ret' = mm_ublox_parse_cfun_response(ResponseOf(a))
    /\ UNCHANGED <<combinations, origin>>
    /\ UNCHANGED mbim_vars

ParseUratRead ==
    /\ op = "none"
    /\ \E a \in UratArgs :
        /\ op' = "mm_ublox_parse_urat_read_response"
        /\ input' = a
        /\ ret' = mm_ublox_parse_urat_read_response(ResponseOf(a))
    /\ UNCHANGED <<combinations, origin>>
    /\ UNCHANGED mbim_vars

BuildUratSetCommand ==
    /\ op = "none"
    /\ \E allowed \in Modes, preferred \in Modes :
        /\ op' = "mm_ublox_build_urat_set_command"
        /\ input' = [allowed |-> allowed, preferred |-> preferred]
        /\ ret' = mm_ublox_build_urat_set_command(allowed, preferred)
    /\ UNCHANGED <<combinations, origin>>
    /\ UNCHANGED mbim_vars

NextAT ==
    \/ ParseUpincnt
    \/ ParseCfun
    \/ ParseUratRead
    \/ BuildUratSetCommand

SpecAT == Init /\ [][NextAT]_vars

(***************************************************************************)
(* The MBIM modem's initialization_started operation                       *)
(***************************************************************************)
\* initialization_started (self, callback, user_data)
InitializationStarted ==
    /\ pc \in {"idle", "done"}
    /\ runs < MaxRuns
    /\ runs' = runs + 1
    /\ LET step == InitializationStartedStep(port) IN
        /\ result' =
              IF step = "fail"
              THEN [NewResult EXCEPT !.error =
                       GErr("MM_CORE_ERROR_FAILED", "Cannot initialize: MBIM port went missing")]
              ELSE NewResult
        /\ pc' = IF step = "fail" THEN "completing"
                 ELSE IF step = "parent" THEN "parent"
                 ELSE "opening"
        /\ hist' = [open_at_call   |-> port = "open",
                    opens          |-> IF step = "open" THEN 1 ELSE 0,
                    open_ok        |-> FALSE,
                    launched       |-> step = "parent",
                    port_at_launch |-> IF step = "parent" THEN port ELSE "none"]
    /\ parent_res' = NoParentResult
    /\ finish_ret' = NoFinish
    /\ UNCHANGED port
    /\ UNCHANGED helper_vars

\* mbim_port_open_ready (mbim, res, ctx): the open request finished
MbimPortOpenReady ==
    /\ pc = "opening"
    /\ \E ok \in BOOLEAN :
        /\ port' = mm_mbim_port_open_finish(port, ok)
        /\ IF MbimPortOpenReadyStep(ok) = "fail"
           THEN /\ result' = [result EXCEPT !.error =
                                 GErr("MM_CORE_ERROR_FAILED", "Couldn't open MBIM port")]
                /\ pc' = "completing"
                /\ hist' = [hist EXCEPT !.open_ok = ok]
           ELSE /\ result' = result
                /\ pc' = "parent"
                /\ hist' = [hist EXCEPT !.open_ok = ok, !.launched = TRUE,
                                        !.port_at_launch = port']
    /\ UNCHANGED <<parent_res, finish_ret, runs>>
    /\ UNCHANGED helper_vars

\* parent_initialization_started_ready (self, res, ctx): the parent class's
\* initialization_started finished
ParentInitializationStartedReady ==
    /\ pc = "parent"
    /\ \E outcome \in ParentOutcomes :
        /\ parent_res' = outcome
        /\ result' = parent_initialization_started_ready(result, outcome)
    /\ pc' = "completing"
    /\ UNCHANGED <<port, finish_ret, hist, runs>>
    /\ UNCHANGED helper_vars

\* The idle completion of ctx->result: the caller's callback runs and calls
\* initialization_started_finish
CompleteInIdle ==
    /\ pc = "completing"
    /\ finish_ret' = initialization_started_finish(result)
    /\ pc' = "done"
    /\ UNCHANGED <<port, result, parent_res, hist, runs>>
    /\ UNCHANGED helper_vars

\* The modem is unplugged between two initializations: its MBIM port is gone
Unplug ==
    /\ pc \in {"idle", "done"}
    /\ port # "missing"
    /\ port' = "missing"
    /\ UNCHANGED <<pc, result, parent_res, finish_ret, hist, runs>>
    /\ UNCHANGED helper_vars

\* finalize (object): an open MBIM port is closed
Finalize ==
    /\ pc \in {"idle", "done"}
    /\ port' = IF port = "open" THEN "closed" ELSE port
    /\ pc' = "finalized"
    /\ UNCHANGED <<result, parent_res, finish_ret, hist, runs>>
    /\ UNCHANGED helper_vars

NextMbim ==
    \/ InitializationStarted
    \/ MbimPortOpenReady
    \/ ParentInitializationStartedReady
    \/ CompleteInIdle
    \/ Unplug
    \/ Finalize

SpecMbim == Init /\ [][NextMbim]_vars

(***************************************************************************)
(* Properties of the mode helpers, checked under Spec                      *)
(***************************************************************************)
ParsedOk == op = "mm_ublox_parse_urat_test_response" /\ ~ret.value.null
Filtered == op = "mm_ublox_filter_supported_modes"

Range(seq) == { seq[k] : k \in 1 .. Len(seq) }

\* C1: on every array a successful mm_ublox_parse_urat_test_response
\* returned, mm_ublox_get_modem_mode_any finds a mode other than NONE, so
\* its assertion 'any != MM_MODEM_MODE_NONE' holds.
C1_AnyAssertionHolds ==
    (op = "mm_ublox_get_modem_mode_any" /\ input.origin = "parsed")
        => (ret.asserted /\ ret.value # MM_MODEM_MODE_NONE)

\* The combinations one selected value contributes: the one without
\* preferred mode, then, for a multi-mode mask, one per preferred value that
\* is in the table, a single mode, and part of the mask.
ExpectedFor(s, preferred) ==
    IF s >= N_COMBINATIONS THEN << >>
    ELSE LET allowed == ublox_combinations[s + 1]
             fits(p) == /\ p < N_COMBINATIONS
                        /\ Cardinality(ublox_combinations[p + 1]) = 1
                        /\ ublox_combinations[p + 1] \subseteq allowed
             kept    == SelectSeq(preferred, fits)
         IN <<[allowed |-> allowed, preferred |-> {}]>>
            \o (IF Cardinality(allowed) > 1
                THEN [k \in 1 .. Len(kept) |->
                         [allowed |-> allowed, preferred |-> ublox_combinations[kept[k] + 1]]]
                ELSE << >>)

RECURSIVE ExpectedCombinations(_, _)
ExpectedCombinations(selected, preferred) ==
    IF selected = << >> THEN << >>
    ELSE ExpectedFor(Head(selected), preferred)
         \o ExpectedCombinations(Tail(selected), preferred)

\* C4: a successful mm_ublox_parse_urat_test_response returns exactly, for
\* each selected value below 7 in the order of the first group, (allowed,
\* NONE) followed, for a multi-mode allowed mask only, by (allowed, preferred)
\* for each fitting value of the second group, in order.
C4_CombinationsAsListed ==
    ParsedOk =>
        ret.value.items =
            ExpectedCombinations(input.split[1].vals,
                                 IF Len(input.split) >= 2 THEN input.split[2].vals ELSE << >>)

\* +URAT: (4,0),(3,0) gives (2G|3G|4G, none), (2G|3G|4G, 4G), (2G|3G|4G, 2G), (2G, none)
C4_Witness ==
    /\ ParsedOk
    /\ input.split = <<Group(TRUE, <<4, 0>>), Group(TRUE, <<3, 0>>)>>
    /\ ret.value.items =
          << [allowed |-> {"2G", "3G", "4G"}, preferred |-> {}],
             [allowed |-> {"2G", "3G", "4G"}, preferred |-> {"4G"}],
             [allowed |-> {"2G", "3G", "4G"}, preferred |-> {"2G"}],
             [allowed |-> {"2G"}, preferred |-> {}] >>

\* C5: in a returned array every allowed mask is an entry of
\* ublox_combinations, every preferred is NONE or one mode of the allowed
\* mask, a single-mode allowed mask has preferred NONE, and the array is not
\* empty.
C5_CombinationsWellFormed ==
    ParsedOk =>
        /\ Len(ret.value.items) >= 1
        /\ \A c \in Range(ret.value.items) :
              /\ c.allowed \in Range(ublox_combinations)
              /\ c.allowed # {}
              /\ \/ c.preferred = {}
                 \/ Cardinality(c.preferred) = 1 /\ c.preferred \subseteq c.allowed
              /\ Cardinality(c.allowed) = 1 => c.preferred = {}

C5_Witness ==
    /\ ParsedOk
    /\ \E c \in Range(ret.value.items) : c.preferred # {}
    /\ \E c \in Range(ret.value.items) : Cardinality(c.allowed) = 1
    /\ \E v \in Range(input.split[2].vals) : v >= N_COMBINATIONS

Unrestricted(model) ==
    \/ model.null
    \/ /\ model.str \notin {TOBY_L201, TOBY_L220, MPCI_L201}
       /\ ~g_str_has_prefix(model.str, LISA_U)
       /\ ~g_str_has_prefix(model.str, SARA_U)

C2_UpincntNoMatchFails ==
    (/\ op = "mm_ublox_parse_upincnt_response"
     /\ (input.tag # "+UPINCNT: " \/ Len(input.fields) < 4))
        => /\ ret.value = FALSE
           /\ ret.error = GErr("MM_CORE_ERROR_FAILED", "Couldn't parse +UPINCNT response")

\* C3: whenever mm_ublox_parse_cfun_response or
\* mm_ublox_parse_urat_read_response returns FALSE the caller's GError is
\* set; a response that does not match, or a +CFUN value other than 0, 1, 4
\* and 19, gives MM_CORE_ERROR_FAILED, "Couldn't parse +CFUN response" or
\* "Couldn't parse +URAT response".
C3_ErrorSetOnFalse ==
    /\ (op = "mm_ublox_parse_cfun_response" /\ ~ret.value) =>
          /\ ret.error # NoError
          /\ (\/ input.tag # "+CFUN: "
              \/ input.fields = << >>
              \/ (input.fields[1].fits /\ input.fields[1].v \notin {0, 1, 4, 19}))
                => ret.error = GErr("MM_CORE_ERROR_FAILED", "Couldn't parse +CFUN response")
    /\ (op = "mm_ublox_parse_urat_read_response" /\ ~ret.value) =>
          /\ ret.error # NoError
          /\ (input.tag # "+URAT: " \/ input.fields = << >>)
                => ret.error = GErr("MM_CORE_ERROR_FAILED", "Couldn't parse +URAT response")

UratRead == op = "mm_ublox_parse_urat_read_response"
\* the response holds '+URAT: a' with a readable a
UratSelected == input.tag = "+URAT: " /\ Len(input.fields) >= 1 /\ input.fields[1].fits
\* the response holds '+URAT: a,b' with a readable b
UratPreferred == UratSelected /\ Len(input.fields) >= 2 /\ input.fields[2].fits
TableAt(v) == ublox_combinations[v + 1]

\* C6: for '+URAT: a' or '+URAT: a,b' with a < 7
\* mm_ublox_parse_urat_read_response returns TRUE with *out_allowed =
\* ublox_combinations[a]; *out_preferred is NONE when b is absent and
\* ublox_combinations[b] when b is present and valid (below 7, one mode, part
\* of the allowed mask).
C6_UratReadValues ==
    (UratRead /\ UratSelected /\ input.fields[1].v < 7) =>
        LET a == input.fields[1].v IN
        /\ Len(input.fields) = 1 => ret.value /\ ret.out = <<TableAt(a), {}>>
        /\ (/\ UratPreferred
            /\ input.fields[2].v < 7
            /\ Cardinality(TableAt(input.fields[2].v)) = 1
            /\ TableAt(input.fields[2].v) \subseteq TableAt(a))
              => ret.value /\ ret.out = <<TableAt(a), TableAt(input.fields[2].v)>>

\* "+URAT: 1,2" reads as allowed 2G|3G, preferred 3G
C6_Witness ==
    /\ UratRead
    /\ input.tag = "+URAT: " /\ input.fields = <<Num(1), Num(2)>>
    /\ ret.value
    /\ ret.out = <<{"2G", "3G"}, {"3G"}>>

\* C7: mm_ublox_parse_urat_read_response fails with MM_CORE_ERROR_FAILED for
\* a selected value >= 7, a preferred value >= 7, a preferred value of more
\* than one mode, and a preferred mode outside the allowed mask; a pair it
\* returns has preferred NONE or one mode of the allowed mask.
C7_UratReadRejects ==
    UratRead =>
        /\ (\/ UratSelected /\ input.fields[1].v >= 7
            \/ UratPreferred /\ input.fields[2].v >= 7
            \/ UratPreferred /\ input.fields[2].v < 7
                  /\ Cardinality(TableAt(input.fields[2].v)) # 1
            \/ UratPreferred /\ input.fields[1].v < 7 /\ input.fields[2].v < 7
                  /\ TableAt(input.fields[1].v) \cap TableAt(input.fields[2].v) = {})
              => ~ret.value /\ ret.error.code = "MM_CORE_ERROR_FAILED"
        /\ ret.value =>
              \/ ret.out[2] = {}
              \/ Cardinality(ret.out[2]) = 1 /\ ret.out[2] \subseteq ret.out[1]

\* "+URAT: 0,2": preferred 3G is no part of allowed 2G
C7_Witness ==
    /\ UratRead
    /\ input.tag = "+URAT: " /\ input.fields = <<Num(0), Num(2)>>
    /\ ~ret.value
    /\ ret.error.code = "MM_CORE_ERROR_FAILED"

InTable(mode) == \E i \in 0 .. 6 : TableAt(i) = mode
IndexOf(mode) == CHOOSE i \in 0 .. 6 : TableAt(i) = mode

\* C8: mm_ublox_build_urat_set_command returns "+URAT=<i>" for preferred
\* NONE and "+URAT=<i>,<j>" otherwise, i and j the indexes of allowed and
\* preferred in ublox_combinations; it returns NULL with
\* MM_CORE_ERROR_FAILED, "No AcT value matches requested mode", when allowed,
\* or a preferred other than NONE, is no entry of the table.
C8_BuildUratSetCommand ==
    op = "mm_ublox_build_urat_set_command" =>
        IF ~InTable(input.allowed) \/ (input.preferred # {} /\ ~InTable(input.preferred))
        THEN /\ ret.value.null
             /\ ret.error = GErr("MM_CORE_ERROR_FAILED", "No AcT value matches requested mode")
        ELSE /\ ~ret.value.null
             /\ ret.error = NoError
             /\ ret.value.str =
                   IF input.preferred = {}
                   THEN "+URAT=" \o ToString(IndexOf(input.allowed))
                   ELSE "+URAT=" \o ToString(IndexOf(input.allowed))
                        \o "," \o ToString(IndexOf(input.preferred))

\* allowed 2G|3G|4G with preferred 4G gives "+URAT=4,3"
C8_Witness ==
    /\ op = "mm_ublox_build_urat_set_command"
    /\ input.allowed = {"2G", "3G", "4G"} /\ input.preferred = {"4G"}
    /\ ret.value = GString("+URAT=4,3")

(***************************************************************************)
(* Properties of the MBIM modem's initialization, checked under SpecMbim   *)
(***************************************************************************)
\* C11: the parent class's initialization_started is launched only while the
\* MBIM port is open: the port was open at the call and no open request was
\* issued, or one open request was issued and finished successfully before
\* the launch; it is never launched before or without a successful open of a
\* closed port.
C11_ParentLaunchedOnOpenPort ==
    /\ hist.launched =>
          /\ hist.port_at_launch = "open"
          /\ \/ hist.open_at_call /\ hist.opens = 0
             \/ ~hist.open_at_call /\ hist.opens = 1 /\ hist.open_ok
    /\ pc = "parent" => hist.launched /\ port = "open"
    /\ pc = "opening" => ~hist.launched

\* the parent launched after the port was opened by this operation
C11_Witness ==
    /\ pc = "parent"
    /\ hist.launched
    /\ ~hist.open_at_call
    /\ hist.opens = 1
    /\ hist.open_ok

\* C12: a failure of the parent's initialization is not fatal: with the port
\* open and an error from the parent's initialization_started_finish, the
\* operation completes without error and initialization_started_finish
\* returns the pointer the parent returned, setting no error.
C12_ParentFailureNotFatal ==
    (pc = "done" /\ hist.launched /\ parent_res.error # NoError) =>
        /\ result.error = NoError
        /\ finish_ret.error = NoError
        /\ finish_ret.value = parent_res.ptr

C12_Witness ==
    /\ pc = "done"
    /\ hist.launched
    /\ hist.port_at_launch = "open"
    /\ parent_res.error # NoError
    /\ finish_ret = [value |-> parent_res.ptr, error |-> NoError]

====
